---- MODULE Spec2Model ----
(***************************************************************************)
(* A model of exp_resnet.py: the SAME-padding convolution and max-pooling  *)
(* layers, the Bottleneck residual block and the ResNet that stacks them.  *)
(*                                                                         *)
(* A tensor is modelled by its shape and an abstract content:              *)
(*   [ch |-> channels, len |-> length of the last axis, val |-> content].  *)
(* The batch axis is never touched by the code and is left out.  The       *)
(* content is a small integer: a convolution with weights w, or an active  *)
(* dropout with mask m, maps content v to Mix(v, w).                       *)
(***************************************************************************)
EXTENDS Integers, Sequences, FiniteSets, TLC

VARIABLES
    args,      \* the constructor arguments the caller passes
    data,      \* the input tensor the caller feeds to forward
    net,       \* the constructed module (ResNet, Bottleneck or a single layer)
    pc,        \* where the caller / the running forward pass is
    i_block,   \* ResNet.forward's loop variable
    out,       \* ResNet.forward's local `out` (the tensor flowing through)
    last,      \* what the most recent Bottleneck.forward did
    n_calls,   \* number of forward calls started on the module
    eval_outs  \* the contents returned by the forward calls made in inference mode

vars == <<args, data, net, pc, i_block, out, last, n_calls, eval_outs>>

-----------------------------------------------------------------------------
(* Bounds of the model. *)

MaxLenTested == 500     \* input lengths 1..MaxLenTested for the single layers
MaxStrideTested == 4    \* strides 1..MaxStrideTested for the single layers
MaxChannels == 3        \* channel counts 1..MaxChannels of a stand-alone block
MaxKernel == 3          \* kernel sizes 0..MaxKernel of a block / network
MaxStride == 3          \* strides 0..MaxStride of a block / network
MaxLen == 4             \* input lengths 1..MaxLen of a block / network
MaxNBlock == 3          \* n_block in 0..MaxNBlock
MaxCalls == 2           \* forward calls per constructed network
MaxDeep == 49           \* n_block of the deep network
MaxDeepLen == 100000000 \* the longest input of the deep network

KernelSizesTested == {1, 3, 5, 7, 16}
BaseFilters == {8, 16, 32, 64}
Weights == {0, 1}       \* the abstract values a random draw can take

-----------------------------------------------------------------------------
(* Helpers. *)

Max(a, b) == IF a >= b THEN a ELSE b

RECURSIVE Pow2(_)
Pow2(n) == IF n <= 0 THEN 1 ELSE 2 * Pow2(n - 1)

\* q is the ceiling of a / b (stated without division)
IsCeilDiv(q, a, b) == q * b >= a /\ (q - 1) * b < a

Mix(v, w) == (v + w) % Cardinality(Weights)

NoTensor == [ch |-> 0, len |-> 0, val |-> 0]
Failed == [ok |-> FALSE, t |-> NoTensor]

Shape(t) == [ch |-> t.ch, len |-> t.len]
NoShape == [ch |-> 0, len |-> 0]

-----------------------------------------------------------------------------
(* torch primitives the code calls, by their documented shape arithmetic.  *)

\* nn.ConstantPad1d((left, right), 0): pads the last axis
ConstantPad1d(left, right, L) == L + left + right

\* torch.nn.Conv1d(kernel_size, stride) with no padding, dilation 1
Conv1dLen(L, kernel_size, stride) == ((L - kernel_size) \div stride) + 1

\* torch.nn.MaxPool1d(kernel_size): stride defaults to kernel_size
MaxPool1dStrideBug(kernel_size) == 1
MaxPool1dStride(kernel_size) == kernel_size

MaxPool1dLen(L, kernel_size) ==
    ((L - kernel_size) \div MaxPool1dStride(kernel_size)) + 1

-----------------------------------------------------------------------------
(* MyConv1dPadSame *)

MyConv1dPadSame_init(in_channels, out_channels, kernel_size, stride) ==
    [kind |-> "conv", in_channels |-> in_channels, out_channels |-> out_channels,
     kernel_size |-> kernel_size, stride |-> stride]

\* the padding computed at the top of both forward methods
SamePadBug(in_dim, kernel_size, stride) ==
    LET out_dim == (in_dim + stride - 1) \div stride
        p == Max(0, (out_dim - 1) * stride + kernel_size - in_dim)
        pad_left == p \div 2
        pad_right == pad_left
    IN  [out_dim |-> out_dim, p |-> p, pad_left |-> pad_left, pad_right |-> pad_right]

SamePad(in_dim, kernel_size, stride) ==
    LET out_dim == (in_dim + stride - 1) \div stride
        p == Max(0, (out_dim - 1) * stride + kernel_size - in_dim)
        pad_left == p \div 2
        pad_right == p - pad_left
    IN  [out_dim |-> out_dim, p |-> p, pad_left |-> pad_left, pad_right |-> pad_right]

\* forward(x) with w the weights of the Conv1d it builds.  A zero stride is a
\* ZeroDivisionError on the out_dim line, a zero kernel or a wrong channel
\* count is rejected by torch when the convolution runs.
MyConv1dPadSame_forward(self, x, w) ==
    IF self.stride < 1 \/ self.kernel_size < 1 \/ x.ch # self.in_channels
    THEN Failed
    ELSE LET pad == SamePad(x.len, self.kernel_size, self.stride)
             padded == ConstantPad1d(pad.pad_left, pad.pad_right, x.len)
         IN  [ok |-> TRUE,
              t |-> [ch |-> self.out_channels,
                     len |-> Conv1dLen(padded, self.kernel_size, self.stride),
                     val |-> Mix(x.val, w)]]

-----------------------------------------------------------------------------
(* MyMaxPool1dPadSame *)

MyMaxPool1dPadSame_init(kernel_size) ==
    [kind |-> "pool", kernel_size |-> kernel_size, stride |-> 1]

MyMaxPool1dPadSame_forward(self, x) ==
    IF self.kernel_size < 1
    THEN Failed
    ELSE LET pad == SamePad(x.len, self.kernel_size, self.stride)
             padded == ConstantPad1d(pad.pad_left, pad.pad_right, x.len)
         IN  [ok |-> TRUE,
              t |-> [ch |-> x.ch,
                     len |-> MaxPool1dLen(padded, self.kernel_size),
                     val |-> x.val]]

-----------------------------------------------------------------------------
(* Bottleneck *)

\* the stride conv1 is built with
Conv1StrideBug(stride, downsample) == stride
Conv1Stride(stride, downsample) == IF downsample THEN stride ELSE 1

\* nn.Module.__init__ leaves every new module in training mode
Bottleneck_init(in_channels, out_channels, kernel_size, stride, downsample, is_first_block) ==
    [kind |-> "bottleneck",
     in_channels |-> in_channels,
     kernel_size |-> kernel_size,
     out_channels |-> out_channels,
     stride |-> stride,
     downsample |-> downsample,
     is_first_block |-> is_first_block,
     bn1 |-> in_channels,
     conv1 |-> MyConv1dPadSame_init(in_channels, out_channels, kernel_size,
                                    Conv1Stride(stride, downsample)),
     bn2 |-> out_channels,
     conv2 |-> MyConv1dPadSame_init(out_channels, out_channels, kernel_size, 1),
     max_pool |-> MyMaxPool1dPadSame_init(stride),
     training |-> TRUE]

\* nn.Dropout: zeroes at random (mask m) in training mode, the identity otherwise
Dropout(x, training, m) ==
    IF training THEN [x EXCEPT !.val = Mix(x.val, m)] ELSE x

\* nn.BatchNorm1d(num_features) applied to x: shape kept, channel count checked
BatchNorm1dOk(num_features, x) == x.ch = num_features

\* the guard of the pre-activation stage in forward
PreActivation(self) == self.is_first_block

\* the masks dropout `do` of the block draws in one forward: none (0) unless
\* the dropout is executed and the block is training
Masks(self, do) ==
    IF self.training /\ (do = "do2" \/ PreActivation(self)) THEN Weights ELSE {0}

\* the zero-padding of identity along the channel axis
ChannelPadBug(self, identity) ==
    LET ch1 == (self.out_channels - self.in_channels) \div 2
        ch2 == ch1
    IN  [identity EXCEPT !.ch = ConstantPad1d(ch1, ch2, identity.ch)]

ChannelPad(self, identity) ==
    LET ch1 == (self.out_channels - self.in_channels) \div 2
        ch2 == self.out_channels - self.in_channels - ch1
    IN  [identity EXCEPT !.ch = ConstantPad1d(ch1, ch2, identity.ch)]

\* `out += identity`: an in-place add, identity broadcast to out's shape
AddOk(o, identity) ==
    /\ (identity.ch = o.ch \/ identity.ch = 1)
    /\ (identity.len = o.len \/ identity.len = 1)

NoStep == [ok |-> FALSE, t |-> NoTensor, main |-> NoShape, identity |-> NoShape,
           preact |-> FALSE, do1 |-> FALSE, do2 |-> FALSE]

\* forward(x); w1, w2 are the weights of the two Conv1d objects the call
\* builds, m1, m2 the masks the two dropouts draw
Bottleneck_forward(self, x, w1, w2, m1, m2) ==
    LET pre == PreActivation(self)
        o1 == IF pre THEN Dropout(x, self.training, m1) ELSE x
        c1 == MyConv1dPadSame_forward(self.conv1, o1, w1)
        o2 == Dropout(c1.t, self.training, m2)
        c2 == MyConv1dPadSame_forward(self.conv2, o2, w2)
        pooled == IF self.downsample
                  THEN MyMaxPool1dPadSame_forward(self.max_pool, x)
                  ELSE [ok |-> TRUE, t |-> x]
        identity == IF self.out_channels # self.in_channels
                    THEN ChannelPad(self, pooled.t)
                    ELSE pooled.t
    IN  IF pre /\ ~BatchNorm1dOk(self.bn1, x) THEN NoStep
        ELSE IF ~c1.ok THEN NoStep
        ELSE IF ~BatchNorm1dOk(self.bn2, c1.t) \/ ~c2.ok THEN NoStep
        ELSE IF ~pooled.ok \/ identity.ch < 0 THEN NoStep
        ELSE [ok |-> AddOk(c2.t, identity),
              t |-> c2.t,
              main |-> Shape(c2.t),
              identity |-> Shape(identity),
              preact |-> pre,
              do1 |-> pre /\ self.training,
              do2 |-> self.training]

-----------------------------------------------------------------------------
(* ResNet *)

NChannel == 3    \* channels of the input data
NClasses == 3

\* one iteration of the loop that fills bottleneck_list
BlockDownsampleBug(i) == i % 2 = 0
BlockDownsample(i) == i % 2 = 1

BlockInChannelsBug(i, base_filters) ==
    IF i = 0 THEN base_filters
    ELSE base_filters * Pow2(i \div 2)

BlockInChannels(i, base_filters) ==
    IF i = 0 THEN base_filters
    ELSE base_filters * Pow2((i - 1) \div 2)

BlockOutChannels(i, base_filters) ==
    LET in_channels == BlockInChannels(i, base_filters)
    IN  IF i = 0 THEN in_channels
        ELSE IF BlockDownsample(i) THEN in_channels
        ELSE in_channels * 2

tmp_block(i, base_filters, kernel_size, stride) ==
    Bottleneck_init(BlockInChannels(i, base_filters),
                    BlockOutChannels(i, base_filters),
                    kernel_size, stride, BlockDownsample(i), i = 0)

\* the modules nn.Module registers as children of the ResNet: the attributes
\* that are themselves modules.  bottleneck_list is a plain list.
Children == {"first_block_conv", "first_block_bn", "first_block_relu",
             "final_bn", "final_relu", "dense", "softmax"}

\* __init__: with n_block < 1 the loop body never runs and out_channels is
\* unbound where final_bn is built (ok = FALSE)
ResNet_init(a) ==
    IF a.n_block < 1
    THEN [ok |-> FALSE, obj |-> [kind |-> "none"]]
    ELSE [ok |-> TRUE,
          obj |-> [kind |-> "resnet",
                   n_block |-> a.n_block,
                   kernel_size |-> a.kernel_size,
                   stride |-> a.stride,
                   first_block_conv |->
                       MyConv1dPadSame_init(a.in_channels, a.base_filters,
                                            a.kernel_size, 1),
                   first_block_bn |-> a.base_filters,
                   bottleneck_list |->
                       [i \in 1..a.n_block |->
                           tmp_block(i - 1, a.base_filters, a.kernel_size, a.stride)],
                   final_bn |-> BlockOutChannels(a.n_block - 1, a.base_filters),
                   dense |-> [in_features |-> BlockOutChannels(a.n_block - 1,
                                                               a.base_filters),
                              out_features |-> a.n_classes],
                   training |-> TRUE,
                   child_training |-> [c \in Children |-> TRUE]]]

\* nn.Module.train(mode) / eval(): sets the flag on the module and on each
\* registered child
Module_train(self, mode) ==
    [self EXCEPT !.training = mode,
                 !.child_training = [c \in Children |-> mode]]

-----------------------------------------------------------------------------
(* The network specification: construct, switch modes, run forward passes. *)

NoNet == [kind |-> "none"]
NoLast == [i |-> -1, in_ch |-> 0] @@ NoStep

Args == [in_channels : {NChannel}, base_filters : BaseFilters,
         kernel_size : 0..MaxKernel, stride : 0..MaxStride,
         n_block : 0..MaxNBlock, n_classes : {NClasses}]

Init ==
    /\ args \in Args
    /\ data \in [ch : {NChannel}, len : 1..MaxLen, val : {0}]
    /\ net = NoNet
    /\ pc = "new"
    /\ i_block = 0
    /\ out = NoTensor
    /\ last = NoLast
    /\ n_calls = 0
    /\ eval_outs = {}

\* model = ResNet(...)
Construct ==
    /\ pc = "new"
    /\ LET r == ResNet_init(args)
       IN  /\ net' = r.obj
           /\ pc' = IF r.ok THEN "idle" ELSE "ctor_error"
    /\ UNCHANGED <<args, data, i_block, out, last, n_calls, eval_outs>>

\* model.train() / model.eval() between forward passes
Train(mode) ==
    /\ pc = "idle"
    /\ net' = Module_train(net, mode)
    /\ UNCHANGED <<args, data, pc, i_block, out, last, n_calls, eval_outs>>

\* ResNet.forward, first block: first_block_conv -> first_block_bn -> relu
ForwardFirst ==
    /\ pc = "idle"
    /\ n_calls < MaxCalls
    /\ n_calls' = n_calls + 1
    /\ \E w \in Weights :
         LET c == MyConv1dPadSame_forward(net.first_block_conv, data, w)
         IN  IF c.ok /\ BatchNorm1dOk(net.first_block_bn, c.t)
             THEN /\ out' = c.t
                  /\ pc' = "blocks"
             ELSE /\ out' = NoTensor
                  /\ pc' = "fwd_error"
    /\ i_block' = 0
    /\ last' = NoLast
    /\ UNCHANGED <<args, data, net, eval_outs>>

\* ResNet.forward, one iteration of the loop over bottleneck_list
ForwardBlock ==
    /\ pc = "blocks"
    /\ i_block < net.n_block
    /\ \E w1 \in Weights, w2 \in Weights,
          m1 \in Masks(net.bottleneck_list[i_block + 1], "do1"),
          m2 \in Masks(net.bottleneck_list[i_block + 1], "do2") :
         LET blk == net.bottleneck_list[i_block + 1]
             r == Bottleneck_forward(blk, out, w1, w2, m1, m2)
         IN  /\ last' = [i |-> i_block, in_ch |-> out.ch] @@ r
             /\ IF r.ok
                THEN /\ out' = r.t
                     /\ i_block' = i_block + 1
                     /\ pc' = "blocks"
                ELSE /\ out' = NoTensor
                     /\ i_block' = i_block
                     /\ pc' = "fwd_error"
    /\ UNCHANGED <<args, data, net, n_calls, eval_outs>>

\* ResNet.forward, final prediction: final_bn -> relu -> mean -> dense -> softmax
ForwardFinal ==
    /\ pc = "blocks"
    /\ i_block = net.n_block
    /\ IF BatchNorm1dOk(net.final_bn, out) /\ out.ch = net.dense.in_features
       THEN /\ out' = [ch |-> net.dense.out_features, len |-> 1, val |-> out.val]
            /\ pc' = "idle"
            /\ eval_outs' = IF net.training THEN eval_outs
                            ELSE eval_outs \cup {out.val}
       ELSE /\ out' = NoTensor
            /\ pc' = "fwd_error"
            /\ eval_outs' = eval_outs
    /\ UNCHANGED <<args, data, net, i_block, last, n_calls>>

Next ==
    \/ Construct
    \/ \E mode \in BOOLEAN : Train(mode)
    \/ ForwardFirst
    \/ ForwardBlock
    \/ ForwardFinal

Spec == Init /\ [][Next]_vars

-----------------------------------------------------------------------------
(* The deep-network specification: a valid network of MaxDeep blocks is    *)
(* built and run in its initial (training) mode.  Its forward pass goes    *)
(* through the blocks of every shallower network.                          *)

InitDeep ==
    /\ args \in [in_channels : {NChannel}, base_filters : BaseFilters,
                 kernel_size : 1..MaxKernel, stride : 1..MaxStride,
                 n_block : {MaxDeep}, n_classes : {NClasses}]
    /\ data \in [ch : {NChannel}, len : {1, MaxLen, MaxLenTested, MaxDeepLen},
                 val : {0}]
    /\ net = NoNet
    /\ pc = "new"
    /\ i_block = 0
    /\ out = NoTensor
    /\ last = NoLast
    /\ n_calls = 0
    /\ eval_outs = {}

NextDeep ==
    \/ Construct
    \/ ForwardFirst
    \/ ForwardBlock
    \/ ForwardFinal

SpecDeep == InitDeep /\ [][NextDeep]_vars

-----------------------------------------------------------------------------
(* The single-layer specification: one MyConv1dPadSame or one              *)
(* MyMaxPool1dPadSame is built and its forward is called once.             *)

ConvLayers ==
    {MyConv1dPadSame_init(NChannel, NChannel, k, s) :
        k \in KernelSizesTested, s \in 1..MaxStrideTested}

PoolLayers ==
    {MyMaxPool1dPadSame_init(k) : k \in KernelSizesTested \cup (1..MaxStrideTested)}

InitLayer ==
    /\ net \in ConvLayers \cup PoolLayers
    /\ args = [kernel_size |-> net.kernel_size, stride |-> net.stride]
    /\ data \in [ch : {NChannel}, len : 1..MaxLenTested, val : {0}]
    /\ pc = "idle"
    /\ i_block = 0
    /\ out = NoTensor
    /\ last = NoLast
    /\ n_calls = 0
    /\ eval_outs = {}

ConvForward ==
    /\ pc = "idle"
    /\ net.kind = "conv"
    /\ \E w \in Weights :
         LET r == MyConv1dPadSame_forward(net, data, w)
         IN  /\ out' = r.t
             /\ pc' = IF r.ok THEN "done" ELSE "fwd_error"
    /\ n_calls' = n_calls + 1
    /\ UNCHANGED <<args, data, net, i_block, last, eval_outs>>

PoolForward ==
    /\ pc = "idle"
    /\ net.kind = "pool"
    /\ LET r == MyMaxPool1dPadSame_forward(net, data)
       IN  /\ out' = r.t
           /\ pc' = IF r.ok THEN "done" ELSE "fwd_error"
    /\ n_calls' = n_calls + 1
    /\ UNCHANGED <<args, data, net, i_block, last, eval_outs>>

NextLayer == ConvForward \/ PoolForward

SpecLayer == InitLayer /\ [][NextLayer]_vars

-----------------------------------------------------------------------------
(* The single-block specification: one Bottleneck with any configuration   *)
(* is built and its forward is called once.                                *)

InitBlock ==
    /\ args \in [in_channels : 1..MaxChannels, out_channels : 1..MaxChannels,
                 kernel_size : 0..MaxKernel, stride : 0..MaxStride,
                 downsample : BOOLEAN, is_first_block : BOOLEAN]
    /\ net = Bottleneck_init(args.in_channels, args.out_channels, args.kernel_size,
                             args.stride, args.downsample, args.is_first_block)
    /\ data \in [ch : 1..MaxChannels, len : 1..MaxLen, val : {0}]
    /\ pc = "idle"
    /\ i_block = 0
    /\ out = NoTensor
    /\ last = NoLast
    /\ n_calls = 0
    /\ eval_outs = {}

BlockForward ==
    /\ pc = "idle"
    /\ net.kind = "bottleneck"
    /\ \E w1 \in Weights, w2 \in Weights,
          m1 \in Masks(net, "do1"), m2 \in Masks(net, "do2") :
         LET r == Bottleneck_forward(net, data, w1, w2, m1, m2)
         IN  /\ last' = [i |-> 0, in_ch |-> data.ch] @@ r
             /\ out' = r.t
             /\ pc' = IF r.ok THEN "done" ELSE "fwd_error"
    /\ n_calls' = n_calls + 1
    /\ UNCHANGED <<args, data, net, i_block, eval_outs>>

NextBlock == BlockForward

SpecBlock == InitBlock /\ [][NextBlock]_vars

-----------------------------------------------------------------------------
(* Properties. *)

ValidArgs ==
    /\ args.kernel_size >= 1
    /\ args.stride >= 1
    /\ args.n_block >= 1
    /\ args.base_filters >= 1

Constructed == pc \notin {"new", "ctor_error"}

\* C1: a completed MyConv1dPadSame.forward on an input of length L returns
\* length ceil(L / stride), which is L itself when stride = 1, and
\* out_channels channels (SpecLayer).
ConvSameLength ==
    (pc \in {"done", "fwd_error"} /\ net.kind = "conv") =>
        /\ pc = "done"
        /\ IsCeilDiv(out.len, data.len, net.stride)
        /\ (net.stride = 1 => out.len = data.len)
        /\ out.ch = net.out_channels

\* C1 witness: kernel 16, stride 3, L = 500 gives length 167
ConvSameLengthWitness ==
    /\ pc = "done"
    /\ net.kind = "conv"
    /\ net.kernel_size = 16
    /\ net.stride = 3
    /\ data.len = 500
    /\ out.len = 167

\* C5 as stated: a completed MyMaxPool1dPadSame.forward returns the input
\* length (SpecLayer).
PoolKeepsLength ==
    (pc = "done" /\ net.kind = "pool") => out.len = data.len

\* C5 as amended: a completed MyMaxPool1dPadSame.forward on an input of
\* length L returns length ceil(L / kernel_size) with the channels unchanged;
\* that is L exactly when kernel_size = 1 or L = 1 (SpecLayer).
PoolDividesLength ==
    (pc \in {"done", "fwd_error"} /\ net.kind = "pool") =>
        /\ pc = "done"
        /\ IsCeilDiv(out.len, data.len, net.kernel_size)
        /\ (out.len = data.len <=> (net.kernel_size = 1 \/ data.len = 1))
        /\ out.ch = data.ch

\* C5 witness: kernel 3 on L = 500 gives length 167
PoolDividesLengthWitness ==
    /\ pc = "done"
    /\ net.kind = "pool"
    /\ net.kernel_size = 3
    /\ data.len = 500
    /\ out.len = 167

\* C4: a Bottleneck with kernel_size >= 1 and stride >= 1, called on an input
\* with in_channels channels and length L, returns out_channels channels and
\* length L when downsample is false, ceil(L / stride) when it is true
\* (SpecBlock).
BlockOutputShape ==
    (/\ pc \in {"done", "fwd_error"}
     /\ net.kind = "bottleneck"
     /\ net.kernel_size >= 1
     /\ net.stride >= 1
     /\ data.ch = net.in_channels) =>
        /\ pc = "done"
        /\ out.ch = net.out_channels
        /\ (~net.downsample => out.len = data.len)
        /\ (net.downsample => IsCeilDiv(out.len, data.len, net.stride))

\* C4 witness: a downsampling block that also widens 2 -> 3 channels
BlockOutputShapeWitness ==
    /\ pc = "done"
    /\ net.kind = "bottleneck"
    /\ net.downsample
    /\ net.in_channels = 2
    /\ net.out_channels = 3
    /\ net.kernel_size = 2
    /\ net.stride = 3
    /\ data.len = 4
    /\ out = [ch |-> 3, len |-> 2, val |-> out.val]

\* C2: in every block of a ResNet built from a valid configuration the
\* Bottleneck.forward reaches `out += identity` with the main branch and the
\* identity of the same channel count and length (SpecDeep).
ResidualAddAligned ==
    (ValidArgs /\ Constructed /\ last.i >= 0) =>
        /\ last.ok
        /\ last.main = last.identity
        /\ last.main.ch = net.bottleneck_list[last.i + 1].out_channels
        /\ last.main.len >= 1

\* C2 witness: with 64 base filters, stride 2 and an input of length
\* 100000000, block 47 (downsampling) adds two [2^29, 6] tensors and block 48
\* (widening) then adds two [2^30, 6] tensors
ResidualAddAlignedWitness ==
    /\ ValidArgs
    /\ pc = "blocks"
    /\ args.base_filters = 64
    /\ args.stride = 2
    /\ args.kernel_size = 3
    /\ data.len = 100000000
    /\ last.i = 48
    /\ last.ok
    /\ last.in_ch = 536870912
    /\ last.main = [ch |-> 1073741824, len |-> 6]
    /\ last.identity = [ch |-> 1073741824, len |-> 6]

\* C3: bottleneck_list holds n_block blocks and block i is configured by the
\* progression rule: block 0 is the first block, never downsamples and has
\* base_filters channels in and out; block i > 0 is not a first block,
\* downsamples iff i is odd, takes base_filters * 2^((i-1) div 2) channels
\* and returns as many if it downsamples, twice as many if not (SpecDeep).
ProgressionRule ==
    (Constructed /\ net.kind = "resnet") =>
        /\ DOMAIN net.bottleneck_list = 1..args.n_block
        /\ \A i \in 0..(args.n_block - 1) :
             LET b == net.bottleneck_list[i + 1]
             IN  IF i = 0
                 THEN /\ b.is_first_block
                      /\ ~b.downsample
                      /\ b.in_channels = args.base_filters
                      /\ b.out_channels = args.base_filters
                 ELSE /\ ~b.is_first_block
                      /\ (b.downsample <=> (i % 2 = 1))
                      /\ b.in_channels = args.base_filters * (2 ^ ((i - 1) \div 2))
                      /\ (b.downsample => b.out_channels = b.in_channels)
                      /\ (~b.downsample => b.out_channels = 2 * b.in_channels)

\* C3 witness: a constructed network on 16 base filters whose block 2 widens
\* 16 -> 32, whose block 3 downsamples and whose block 48 widens 2^27 -> 2^28
ProgressionRuleWitness ==
    /\ pc = "idle"
    /\ net.kind = "resnet"
    /\ args.n_block >= 49
    /\ args.base_filters = 16
    /\ net.bottleneck_list[3].in_channels = 16
    /\ net.bottleneck_list[3].out_channels = 32
    /\ net.bottleneck_list[4].downsample
    /\ ~net.bottleneck_list[49].downsample
    /\ net.bottleneck_list[49].in_channels = 134217728
    /\ net.bottleneck_list[49].out_channels = 268435456

\* C10: the channel widths chain: first_block_conv feeds block 0, block i
\* feeds block i + 1, the last block feeds final_bn and dense, whose width is
\* base_filters * 2^((n_block-1) div 2); and in a forward pass the tensor
\* that reaches a block or the final stage has exactly that width (Spec).
ChannelsChain ==
    (Constructed /\ net.kind = "resnet") =>
        LET n == args.n_block
            blocks == net.bottleneck_list
        IN  /\ net.first_block_conv.out_channels = blocks[1].in_channels
            /\ net.first_block_bn = blocks[1].in_channels
            /\ \A i \in 1..(n - 1) : blocks[i].out_channels = blocks[i + 1].in_channels
            /\ net.final_bn = blocks[n].out_channels
            /\ net.dense.in_features = blocks[n].out_channels
            /\ net.final_bn = args.base_filters * (2 ^ ((n - 1) \div 2))
            /\ (pc = "blocks" =>
                  out.ch = IF i_block < n THEN blocks[i_block + 1].in_channels
                                          ELSE net.final_bn)
            /\ (last.i >= 0 => last.in_ch = blocks[last.i + 1].in_channels)

\* C10 witness: a forward pass over three blocks arrives at the final stage
\* with the 2 * base_filters channels final_bn was built for
ChannelsChainWitness ==
    /\ pc = "blocks"
    /\ args.n_block = 3
    /\ i_block = 3
    /\ args.base_filters = 32
    /\ last.i = 2
    /\ last.in_ch = 32
    /\ out.ch = 64
    /\ net.final_bn = 64

\* C6 as stated: all forward calls made in inference mode on one validly
\* configured network with the same input return the same output (Spec).
Determinism == ValidArgs => Cardinality(eval_outs) <= 1

\* C7 as stated: while a forward pass runs on a validly configured network
\* that is in inference mode, no block applies random zeroing (Spec).
NoZeroingAtInference ==
    (ValidArgs /\ pc = "blocks" /\ ~net.training /\ last.i >= 0 /\ last.ok) =>
        (~last.do1 /\ ~last.do2)

\* C8 as stated: a network is never constructed from an invalid
\* configuration, so no forward pass can start on one (Spec).
InvalidConfigRejected == ~ValidArgs => pc \in {"new", "ctor_error"}

\* C9 as stated: in a forward pass of a validly configured network a block
\* runs the pre-activation stage exactly when it is not the first block (Spec).
PreActivationSkippedInFirstBlock ==
    (ValidArgs /\ pc = "blocks" /\ last.i >= 0 /\ last.ok) =>
        (last.preact <=> ~net.bottleneck_list[last.i + 1].is_first_block)

====
